---- MODULE Spec2Model ----
(***************************************************************************)
(* Model of src/server.js: the POST /scrape handler (Batch Orchestrator)   *)
(* and scrapeUrl (URL Scraper).                                            *)
(*                                                                         *)
(* JavaScript strings are TLA+ strings (TLC treats them as sequences of    *)
(* characters: Len, SubSeq and \o work on them), so includes, trim, the    *)
(* error-message template and URL resolution are computed on the text.     *)
(* One action is one event-loop task together with the microtasks it       *)
(* triggers: the continuation of scrapeUrl after an await, and, when the   *)
(* last promise settles, the continuation of the handler after             *)
(* Promise.allSettled.                                                     *)
(***************************************************************************)
EXTENDS Integers, Sequences, FiniteSets, TLC

\* Longest URL list a request carries in the model.
MaxUrls == 2

Slots == 1..MaxUrls

----------------------------------------------------------------------------
(* Strings *)

StartsWith(s, p) == Len(s) >= Len(p) /\ SubSeq(s, 1, Len(p)) = p

\* String.prototype.includes
Includes(s, t) ==
  \E k \in 1..(Len(s) - Len(t) + 1) : SubSeq(s, k, k + Len(t) - 1) = t

WhiteSpace == {" ", "\t", "\n", "\r"}

IsSpaceAt(s, k) == SubSeq(s, k, k) \in WhiteSpace

\* String.prototype.trim
Trim(s) ==
  LET keep == {k \in 1..Len(s) : ~IsSpaceAt(s, k)}
  IN  IF keep = {} THEN ""
      ELSE LET lo == CHOOSE k \in keep : \A j \in keep : k <= j
               hi == CHOOSE k \in keep : \A j \in keep : k >= j
           IN  SubSeq(s, lo, hi)

\* JavaScript truthiness of a string
Truthy(s) == s # ""

----------------------------------------------------------------------------
(* URLs the client may send, and what new URL(relative, base).href gives   *)

SiteHost == "books.toscrape.com"

SiteUrl == "http://books.toscrape.com/catalogue/page-1.html"
PlainUrl == "http://example.com/"
BadUrl == "not a url"

Urls == {SiteUrl, PlainUrl, BadUrl}

\* What fetch can parse as an absolute http(s) URL.
IsAbsolute(s) == StartsWith(s, "http://") \/ StartsWith(s, "https://")

SchemeLen(s) == IF StartsWith(s, "https://") THEN 8 ELSE 7

\* Index of the first "/" after the authority, or Len + 1.
PathStart(s) ==
  LET cand == {k \in (SchemeLen(s) + 1)..Len(s) : SubSeq(s, k, k) = "/"}
  IN  IF cand = {} THEN Len(s) + 1
      ELSE CHOOSE k \in cand : \A j \in cand : k <= j

\* Index one past the path: the first "?" or "#", or Len + 1.
PathEnd(s) ==
  LET cand == {k \in 1..Len(s) : SubSeq(s, k, k) \in {"?", "#"}}
  IN  IF cand = {} THEN Len(s) + 1
      ELSE CHOOSE k \in cand : \A j \in cand : k <= j

Origin(s) == SubSeq(s, 1, PathStart(s) - 1)

\* The base URL up to and including the last "/" of its path.
Dir(s) ==
  LET cand == {k \in PathStart(s)..(PathEnd(s) - 1) : SubSeq(s, k, k) = "/"}
  IN  IF cand = {} THEN Origin(s) \o "/"
      ELSE SubSeq(s, 1, CHOOSE k \in cand : \A j \in cand : k >= j)

\* An href the URL parser refuses even with a base (unclosed IPv6 literal).
InvalidHref == "http://["

\* new URL(relative, base) throws TypeError on InvalidHref.
ResolveThrows(relative, base) == relative = InvalidHref

\* new URL(relative, base).href, for hrefs without dot segments.
ResolveUrl(relative, base) ==
  IF IsAbsolute(relative) THEN relative
  ELSE IF StartsWith(relative, "/") THEN Origin(base) \o relative
  ELSE Dir(base) \o relative

----------------------------------------------------------------------------
(* Documents: what cheerio.load(html) gives the selectors of scrapeUrl.    *)
(* pods are the article.product_pod elements in document order; of each,   *)
(* the title and href attributes of its first "h3 a" (absent: has = FALSE) *)
(* and the text of ".product_price .price_color" ("" when none matches).   *)
(* h1s are the texts of the h1 elements in document order.                 *)

NoAttr == [has |-> FALSE]
Attr(v) == [has |-> TRUE, v |-> v]

Pod(title, href, price) == [title |-> title, href |-> href, price |-> price]

PodGoodRel == Pod(Attr(" A Light in the Attic "), Attr("a-light_1000/index.html"), " 51.77 ")
PodGoodRoot == Pod(Attr("Soumission"), Attr("/catalogue/soumission_998/index.html"), "50.10")
PodGoodAbs == Pod(Attr("Sharp Objects"), Attr("https://cdn.example.org/sharp.html"), "47.82")
PodNoPrice == Pod(Attr("Sapiens"), Attr("sapiens_996/index.html"), "")
PodNoTitle == Pod(NoAttr, Attr("x.html"), "10.00")
PodNoHref == Pod(Attr("Olio"), NoAttr, "23.88")
PodEmptyHref == Pod(Attr("Olio"), Attr(""), "23.88")
PodBlankTitle == Pod(Attr("  "), Attr("blank_1/index.html"), "9.99")
PodBlankPrice == Pod(Attr("Mesaerion"), Attr("mesaerion_2/index.html"), " \n ")
PodBadHref == Pod(Attr("Broken"), Attr(InvalidHref), "1.00")

Doc(h1s, pods) == [h1s |-> h1s, pods |-> pods]

DocEmpty == Doc(<<>>, <<>>)
DocHeading == Doc(<<" Example Domain ", "Second">>, <<>>)
DocBlankHeading == Doc(<<" \n ", "Second">>, <<>>)
DocCatalog == Doc(<<"All products">>, <<PodGoodRel, PodNoPrice, PodGoodRoot, PodNoTitle, PodNoHref, PodEmptyHref, PodGoodAbs>>)
DocBlank == Doc(<<>>, <<PodGoodRel, PodBlankTitle, PodBlankPrice>>)
DocBroken == Doc(<<"Oops">>, <<PodGoodRel, PodBadHref, PodGoodAbs>>)

Docs == {DocEmpty, DocHeading, DocBlankHeading, DocCatalog, DocBlank, DocBroken}

----------------------------------------------------------------------------
(* Outcomes *)

Success(url, records) == [url |-> url, status |-> "success", records |-> records]

Error(name, message) == [has |-> TRUE, name |-> name, message |-> message]
NoError == [has |-> FALSE]

TimedOutMessage == "Request timed out"

\* A catch clause that forgets the requested url.
CatchOutcomeNoUrl(url, error) ==
  [url |-> "Unknown URL (unexpected error)", status |-> "failed",
   error |-> IF error.name = "AbortError" THEN TimedOutMessage ELSE error.message]

\* A catch clause that reports the error's own message whatever its name.
CatchOutcomeNoAbort(url, error) ==
  [url |-> url, status |-> "failed", error |-> error.message]

\* A catch clause that also returns an (empty) records field.
CatchOutcomeWithRecords(url, error) ==
  [url |-> url, status |-> "failed", records |-> <<>>,
   error |-> IF error.name = "AbortError" THEN TimedOutMessage ELSE error.message]

\* The object the catch clause of scrapeUrl returns.
CatchOutcome(url, error) ==
  [url |-> url, status |-> "failed",
   error |-> IF error.name = "AbortError" THEN TimedOutMessage ELSE error.message]

----------------------------------------------------------------------------
(* Extraction policies *)

\* absoluteLink of one product container: a string, or null (has = FALSE).
AbsoluteLink(pod, url) ==
  IF pod.href.has /\ Truthy(pod.href.v)
  THEN Attr(ResolveUrl(pod.href.v, url))
  ELSE NoAttr

\* new URL(relativeLink, url) throws in the callback of this container.
PodThrows(pod, url) ==
  pod.href.has /\ Truthy(pod.href.v) /\ ResolveThrows(pod.href.v, url)

\* if (title && price && absoluteLink)
PodAccepted(pod, url) ==
  /\ pod.title.has /\ Truthy(pod.title.v)
  /\ Truthy(pod.price)
  /\ AbsoluteLink(pod, url).has /\ Truthy(AbsoluteLink(pod, url).v)

PodRecord(pod, url) ==
  [title |-> Trim(pod.title.v), price |-> Trim(pod.price),
   link |-> AbsoluteLink(pod, url).v]

RECURSIVE SiteRecords(_, _)
\* The records the .each loop pushes, in document order.
SiteRecords(pods, url) ==
  IF pods = <<>> THEN <<>>
  ELSE (IF PodAccepted(Head(pods), url)
        THEN <<PodRecord(Head(pods), url)>> ELSE <<>>)
       \o SiteRecords(Tail(pods), url)

RECURSIVE Concat(_)
Concat(texts) == IF texts = <<>> THEN "" ELSE Head(texts) \o Concat(Tail(texts))

\* $('h1').text() without first(): the texts of all the h1 elements together.
GenericRecordsAllH1(doc) ==
  LET genericTitle == Trim(Concat(doc.h1s))
  IN  IF Truthy(genericTitle)
      THEN <<[title |-> genericTitle, source |-> "Generic H1 scrape"]>>
      ELSE <<>>

\* $('h1').first().text().trim() and the record pushed when it is truthy.
GenericRecords(doc) ==
  LET genericTitle == IF doc.h1s = <<>> THEN "" ELSE Trim(Head(doc.h1s))
  IN  IF Truthy(genericTitle)
      THEN <<[title |-> genericTitle, source |-> "Generic H1 scrape"]>>
      ELSE <<>>

\* Which branch of the if / else runs for this url.
PolicyFor(url) == IF Includes(url, SiteHost) THEN "site" ELSE "generic"

\* Parsing and extraction: lines 45-82, up to the return or the throw.
Extract(doc, url) ==
  IF PolicyFor(url) = "site"
  THEN IF \E k \in 1..Len(doc.pods) : PodThrows(doc.pods[k], url)
       THEN [threw |-> TRUE, error |-> Error("TypeError", "Invalid URL")]
       ELSE [threw |-> FALSE, records |-> SiteRecords(doc.pods, url)]
  ELSE [threw |-> FALSE, records |-> GenericRecords(doc)]

----------------------------------------------------------------------------
(* State *)

VARIABLES
  handler,      \* the POST /scrape handler: "listening", "awaiting" (at the
                \* await of Promise.allSettled) or "sent" (res.json called)
  urls,         \* req.body.urls, a JavaScript value
  res,          \* the HTTP response: status and JSON body once sent
  scrapes,      \* per list position, the scrapeUrl invocation started for it
  settleOrder   \* positions in the order their promises settled

\* The page (the DOMContentLoaded listener and what it closes over).
VARIABLES
  page,           \* "unloaded", or "loaded" once the listener has run
  textarea,       \* urlsTextarea.value
  resultsArea,    \* what resultsArea shows (its innerHTML, by kind)
  loadingHidden,  \* loadingIndicator has the class "hidden"
  buttonDisabled, \* scrapeButton.disabled
  storage,        \* localStorage.getItem(storageKey): a string, or null
  calls,          \* the click handlers suspended at an await, oldest first
  lastEvent,      \* history: the page's last task
  lastOk,         \* history: the results of the last OK response
  lastSaved       \* history: the results last written to storage

serverVars == <<handler, urls, res, scrapes, settleOrder>>

clientVars ==
  <<page, textarea, resultsArea, loadingHidden, buttonDisabled, storage,
    calls, lastEvent, lastOk, lastSaved>>

vars == <<serverVars, clientVars>>

\* JavaScript values req.body.urls can hold after express.json().
Undefined == [t |-> "undefined"]
Null == [t |-> "null"]
Str(v) == [t |-> "string", v |-> v]
Num(v) == [t |-> "number", v |-> v]
Obj == [t |-> "object"]
Arr(v) == [t |-> "array", v |-> v]

UrlLists == UNION {[1..n -> Urls] : n \in 1..MaxUrls}

BodyValues ==
  {Undefined, Null, Str(""), Str(PlainUrl), Num(0), Num(7), Obj, Arr(<<>>)}
    \cup {Arr(l) : l \in UrlLists}

\* !urls
Falsy(v) ==
  \/ v.t \in {"undefined", "null"}
  \/ v.t = "string" /\ v.v = ""
  \/ v.t = "number" /\ v.v = 0

\* A validation that forgets the empty array.
InvalidBodyNoLength(v) == Falsy(v) \/ v.t # "array"

\* !urls || !Array.isArray(urls) || urls.length === 0
InvalidBody(v) == Falsy(v) \/ v.t # "array" \/ Len(v.v) = 0

BadRequestMessage == "Please provide an array of URLs in the request body."

\* Responses a remote server can answer with (status line only).
Response(status, statusText) ==
  [has |-> TRUE, status |-> status, statusText |-> statusText]
NoResponse == [has |-> FALSE]

Responses ==
  {Response(200, "OK"), Response(300, "Multiple Choices"),
   Response(404, "Not Found")}

\* response.ok
Ok(response) == 200 <= response.status /\ response.status <= 299

\* Rejections of fetch and of response.text() the runtime produces.
FetchFailed == Error("TypeError", "fetch failed")
BodyTerminated == Error("TypeError", "terminated")
AbortError == Error("AbortError", "This operation was aborted")
ParseUrlError(url) == Error("TypeError", "Failed to parse URL from " \o url)

HttpError(url, response) ==
  Error("Error", "Failed to fetch " \o url \o ": " \o ToString(response.status)
                   \o " " \o response.statusText)

Pending == [state |-> "pending"]
Fulfilled(value) == [state |-> "fulfilled", value |-> value]
Rejected(reason) == [state |-> "rejected", reason |-> reason]

\* An invocation that has not been started.
NotStarted ==
  [pc |-> "unstarted", timer |-> "unset", aborted |-> FALSE,
   response |-> NoResponse, html |-> NoAttr, error |-> NoError,
   promise |-> Pending, fetches |-> 0, requests |-> 0, reads |-> 0,
   policy |-> "none", returns |-> 0]

----------------------------------------------------------------------------
(* scrapeUrl, one continuation at a time.  s is the invocation's state.     *)

\* No try / catch: the exception leaves scrapeUrl and rejects its promise.
ThrowUncaught(s, url, error) ==
  [s EXCEPT !.pc = "returned", !.error = error, !.promise = Rejected(error)]

\* An exception inside the try block: the catch clause returns the outcome.
Throw(s, url, error) ==
  [s EXCEPT !.pc = "returned", !.error = error, !.returns = @ + 1,
            !.promise = Fulfilled(CatchOutcome(url, error))]

\* The call up to the first await: controller, timer, fetch.  fetch rejects
\* at once, without a request, for a string it cannot parse as a URL.
Begin(url) ==
  LET s == [NotStarted EXCEPT !.timer = "pending", !.fetches = 1]
  IN  IF IsAbsolute(url)
      THEN [s EXCEPT !.pc = "fetch", !.requests = 1]
      ELSE Throw(s, url, ParseUrlError(url))

\* A continuation that reads the body whatever the status.
OnHeadersNoCheck(s, url, response) ==
  [s EXCEPT !.timer = "cleared", !.response = response, !.pc = "text", !.reads = @ + 1]

\* fetch resolved: clearTimeout, the response.ok check, response.text().
OnHeaders(s, url, response) ==
  LET s1 == [s EXCEPT !.timer = "cleared", !.response = response]
  IN  IF ~Ok(response)
      THEN Throw(s1, url, HttpError(url, response))
      ELSE [s1 EXCEPT !.pc = "text", !.reads = @ + 1]

RECURSIVE RecordsSoFar(_)
\* The records of the invocations 1..k that have returned a Success.
RecordsSoFar(k) ==
  IF k = 0 THEN <<>>
  ELSE RecordsSoFar(k - 1)
       \o (IF scrapes[k].promise.state = "fulfilled"
              /\ scrapes[k].promise.value.status = "success"
           THEN scrapes[k].promise.value.records ELSE <<>>)

\* A records array shared by all invocations instead of one per call.
OnBodySharedRecords(s, url, doc) ==
  LET s1 == [s EXCEPT !.html = Attr(doc), !.policy = PolicyFor(url)]
      x  == Extract(doc, url)
  IN  IF x.threw
      THEN Throw(s1, url, x.error)
      ELSE [s1 EXCEPT !.pc = "returned", !.returns = @ + 1,
                      !.promise = Fulfilled(Success(url,
                                     RecordsSoFar(MaxUrls) \o x.records))]

\* response.text() resolved: cheerio.load, the policy, the return.
OnBody(s, url, doc) ==
  LET s1 == [s EXCEPT !.html = Attr(doc), !.policy = PolicyFor(url)]
      x  == Extract(doc, url)
  IN  IF x.threw
      THEN Throw(s1, url, x.error)
      ELSE [s1 EXCEPT !.pc = "returned", !.returns = @ + 1,
                      !.promise = Fulfilled(Success(url, x.records))]

\* One controller for the whole batch: firing aborts every pending fetch.
AbortTargetsShared(i) == Slots

\* The invocations whose fetch the controller of invocation i aborts.
AbortTargets(i) == {i}

\* A handler that scrapes the first URL of the list only.
LaunchedFirstOnly(l) == {1}

\* The positions urls.map(url => scrapeUrl(url)) calls scrapeUrl for.
Launched(l) == 1..Len(l)

----------------------------------------------------------------------------
(* The handler after Promise.allSettled *)

\* A handler that answers as soon as one promise has settled.
AnySettled(sc, n) == \E i \in 1..n : sc[i].promise.state # "pending"

\* Promise.allSettled(scrapePromises) has resolved.
AllSettled(sc, n) == \A i \in 1..n : sc[i].promise.state # "pending"

UnexpectedMessage == "An unexpected error occurred during scraping."

RECURSIVE FulfilledValues(_, _, _)
FulfilledValues(sc, k, n) ==
  IF k > n THEN <<>>
  ELSE (IF sc[k].promise.state = "fulfilled"
        THEN <<sc[k].promise.value>> ELSE <<>>) \o FulfilledValues(sc, k + 1, n)

\* A map that keeps the fulfilled results only.
ResponseDataFulfilledOnly(sc, n) == FulfilledValues(sc, 1, n)

\* results.map(...): one element per promise, in the order of the array;
\* result.reason?.message || the generic text for a rejected one.
ResponseData(sc, n) ==
  [i \in 1..n |->
     IF sc[i].promise.state = "fulfilled"
     THEN sc[i].promise.value
     ELSE [url |-> "Unknown URL (unexpected error)", status |-> "failed",
           error |-> IF sc[i].promise.state = "rejected"
                        /\ sc[i].promise.reason.has
                        /\ Truthy(sc[i].promise.reason.message)
                     THEN sc[i].promise.reason.message
                     ELSE UnexpectedMessage]]

NotSent == [sent |-> FALSE]
Sent(status, json) == [sent |-> TRUE, status |-> status, json |-> json]

\* Positions of 1..n settled in sc2 and not in sc1, in increasing order.
RECURSIVE NewlySettled(_, _, _, _)
NewlySettled(sc1, sc2, k, n) ==
  IF k > n THEN <<>>
  ELSE (IF sc1[k].promise.state = "pending" /\ sc2[k].promise.state # "pending"
        THEN <<k>> ELSE <<>>) \o NewlySettled(sc1, sc2, k + 1, n)

\* The handler once the invocations of list l stand as sc: it answers when
\* Promise.allSettled has resolved, and goes on waiting otherwise.
Respond(sc, l) ==
  IF AllSettled(sc, Len(l))
  THEN /\ handler' = "sent"
       /\ res' = Sent(200, ResponseData(sc, Len(l)))
  ELSE /\ handler' = "awaiting"
       /\ UNCHANGED res

----------------------------------------------------------------------------
(* Actions *)

ServerInit ==
  /\ handler = "listening"
  /\ urls = Undefined
  /\ res = NotSent
  /\ scrapes = [i \in Slots |-> NotStarted]
  /\ settleOrder = <<>>

\* What resultsArea shows before any script has written to it.
Blank == [kind |-> "blank"]

\* No page is open.
NoPage ==
  /\ page = "unloaded"
  /\ textarea = ""
  /\ resultsArea = Blank
  /\ loadingHidden = TRUE
  /\ buttonDisabled = FALSE
  /\ calls = <<>>
  /\ lastEvent = "none"
  /\ lastOk = NoAttr
  /\ lastSaved = NoAttr

Init == ServerInit /\ NoPage /\ storage = NoAttr

\* app.post('/scrape'): validation, then urls.map(url => scrapeUrl(url)).
PostScrape(v) ==
  /\ handler = "listening"
  /\ UNCHANGED clientVars
  /\ urls' = v
  /\ IF InvalidBody(v)
     THEN /\ handler' = "sent"
          /\ res' = Sent(400, [error |-> BadRequestMessage])
          /\ UNCHANGED <<scrapes, settleOrder>>
     ELSE LET sc == [i \in Slots |->
                       IF i \in Launched(v.v) THEN Begin(v.v[i]) ELSE scrapes[i]]
          IN  /\ scrapes' = sc
              /\ settleOrder' = NewlySettled(scrapes, sc, 1, Len(v.v))
              /\ Respond(sc, v.v)

\* A task that leaves the invocations as sc while a batch is running.
Task(sc) ==
  /\ scrapes' = sc
  /\ settleOrder' = settleOrder \o NewlySettled(scrapes, sc, 1, Len(urls.v))
  /\ UNCHANGED <<urls, clientVars>>
  /\ IF handler = "awaiting"
     THEN Respond(sc, urls.v)
     ELSE UNCHANGED <<handler, res>>

Started(i) == urls.t = "array" /\ i <= Len(urls.v)

\* The remote server's status line and headers arrive: fetch resolves.
Headers(i, response) ==
  /\ Started(i) /\ scrapes[i].pc = "fetch"
  /\ Task([scrapes EXCEPT ![i] = OnHeaders(@, urls.v[i], response)])

\* DNS, connection or TLS failure: fetch rejects.
FetchError(i) ==
  /\ Started(i) /\ scrapes[i].pc = "fetch"
  /\ Task([scrapes EXCEPT ![i] = Throw(@, urls.v[i], FetchFailed)])

\* The 15 s timer of invocation i fires: controller.abort().
Timeout(i) ==
  /\ Started(i) /\ scrapes[i].timer = "pending"
  /\ Task([j \in Slots |->
        LET s1 == IF j = i
                  THEN [scrapes[j] EXCEPT !.timer = "fired", !.aborted = TRUE]
                  ELSE scrapes[j]
        IN  IF j \in AbortTargets(i) /\ s1.pc = "fetch"
            THEN Throw([s1 EXCEPT !.aborted = TRUE], urls.v[j], AbortError)
            ELSE s1])

\* The whole body has arrived: response.text() resolves.
Body(i, doc) ==
  /\ Started(i) /\ scrapes[i].pc = "text"
  /\ Task([scrapes EXCEPT ![i] = OnBody(@, urls.v[i], doc)])

\* The connection breaks while the body is read: response.text() rejects.
BodyError(i) ==
  /\ Started(i) /\ scrapes[i].pc = "text"
  /\ Task([scrapes EXCEPT ![i] = Throw(@, urls.v[i], BodyTerminated)])

Next ==
  \/ \E v \in BodyValues : PostScrape(v)
  \/ \E i \in Slots, r \in Responses : Headers(i, r)
  \/ \E i \in Slots : FetchError(i)
  \/ \E i \in Slots : Timeout(i)
  \/ \E i \in Slots, d \in Docs : Body(i, d)
  \/ \E i \in Slots : BodyError(i)

Spec == Init /\ [][Next]_vars

\* Reasons a promise can be rejected with: an Error with a message, an Error
\* with an empty message, and a reason that is no object (undefined).
Reasons == {Error("Error", "boom"), Error("Error", ""), NoError}

\* The promise of invocation i is rejected.  No path of scrapeUrl does this;
\* it stands for the defect the rejected branch of results.map is written for.
Rejection(i, reason) ==
  /\ Started(i) /\ scrapes[i].promise.state = "pending"
  /\ Task([scrapes EXCEPT ![i].pc = "thrown", ![i].promise = Rejected(reason)])

DefectNext ==
  \/ Next
  \/ \E i \in Slots, reason \in Reasons : Rejection(i, reason)

\* The program with promises that can be rejected from outside scrapeUrl.
DefectSpec == Init /\ [][DefectNext]_vars

\* A pending timer fires after 15 s whatever the remote servers do; when and
\* whether a server answers is not the program's to decide, so the arrival
\* of headers and bodies carries no fairness.
FairSpec == Spec /\ \A i \in Slots : WF_vars(Timeout(i))

----------------------------------------------------------------------------
(* The page: intake of the textarea                                        *)

\* Textarea contents a user may have typed.
Texts ==
  {"", "not a url\nftp://files.test/a",
   "  http://a.test/x  \nfoo\n\nhttps://b.test/y",
   "\thttps://b.test/y\nhttp://a.test/x \nhttp"}

\* String.prototype.split('\n')
Split(s) ==
  LET breaks == {k \in 1..Len(s) : SubSeq(s, k, k) = "\n"}
      n == Cardinality(breaks)
      Nth(j) == CHOOSE k \in breaks : Cardinality({m \in breaks : m < k}) = j - 1
      First(j) == IF j = 1 THEN 1 ELSE Nth(j - 1) + 1
      Last(j) == IF j = n + 1 THEN Len(s) ELSE Nth(j) - 1
  IN  [j \in 1..(n + 1) |-> SubSeq(s, First(j), Last(j))]

\* The filter of the click handler.
Qualifies(url) ==
  Len(url) > 0 /\ (StartsWith(url, "http://") \/ StartsWith(url, "https://"))

\* An intake that forgets to trim the lines.
ClientUrlsNoTrim(text) ==
  SelectSeq(Split(text), Qualifies)

\* urlsTextarea.value.split('\n').map(trim).filter(...)
ClientUrls(text) ==
  LET lines == Split(text)
  IN  SelectSeq([j \in 1..Len(lines) |-> Trim(lines[j])], Qualifies)

----------------------------------------------------------------------------
(* The page: JSON texts                                                    *)

RECURSIVE Join(_, _)
\* Array.prototype.join, as JSON.stringify separates members.
Join(texts, sep) ==
  IF texts = <<>> THEN ""
  ELSE IF Len(texts) = 1 THEN texts[1]
  ELSE texts[1] \o sep \o Join(Tail(texts), sep)

RECURSIVE Escape(_)
\* The escapes of a JSON string for the quote and the backslash.
Escape(s) ==
  IF s = "" THEN ""
  ELSE LET c == SubSeq(s, 1, 1)
       IN  (IF c \in {"\"", "\\"} THEN "\\" \o c ELSE c)
             \o Escape(SubSeq(s, 2, Len(s)))

Quote(s) == "\"" \o Escape(s) \o "\""

\* The order in which the server's object literals list their keys.
KeyOrder ==
  <<"url", "status", "records", "error", "title", "price", "link", "source">>

\* JSON.stringify of an object whose values are strings.
FlatJson(r) ==
  LET keys == SelectSeq(KeyOrder, LAMBDA k : k \in DOMAIN r)
  IN  "{" \o Join([j \in 1..Len(keys) |->
                     Quote(keys[j]) \o ":" \o Quote(r[keys[j]])], ",") \o "}"

\* JSON.stringify of one outcome.
OutcomeJson(r) ==
  LET keys == SelectSeq(KeyOrder, LAMBDA k : k \in DOMAIN r)
      Member(k) ==
        IF k = "records"
        THEN "[" \o Join([j \in 1..Len(r.records) |-> FlatJson(r.records[j])],
                         ",") \o "]"
        ELSE Quote(r[k])
  IN  "{" \o Join([j \in 1..Len(keys) |->
                     Quote(keys[j]) \o ":" \o Member(keys[j])], ",") \o "}"

\* JSON.stringify of a value that is no array.
ScalarJson(v) ==
  CASE v.t = "null" -> "null"
    [] v.t = "number" -> ToString(v.v)
    [] v.t = "string" -> Quote(v.v)
    [] v.t = "object" -> "{}"

\* An outcome, as opposed to a null or a number, among the members of a list.
IsOutcome(e) == "t" \notin DOMAIN e

\* JSON.stringify(results)
Stringify(v) ==
  IF v.t = "array"
  THEN "[" \o Join([j \in 1..Len(v.v) |->
                      IF IsOutcome(v.v[j]) THEN OutcomeJson(v.v[j])
                      ELSE ScalarJson(v.v[j])], ",") \o "]"
  ELSE ScalarJson(v)

\* Outcomes as the server sends them.
SiteOutcome == Success(SiteUrl, SiteRecords(DocCatalog.pods, SiteUrl))
PlainOutcome == Success(PlainUrl, GenericRecords(DocHeading))
FailedOutcome == CatchOutcome(PlainUrl, FetchFailed)

\* The values a JSON text of this model can stand for.
JsonValues ==
  {Null, Obj, Arr(<<>>), Arr(<<Num(1), Null>>), Arr(<<PlainOutcome>>),
   Arr(<<SiteOutcome, FailedOutcome>>)}

\* Texts that are no JSON.
Garbage == {"{oops", "[1,"}

\* Whether JSON.parse(text) returns.
Parses(text) == \E v \in JsonValues : Stringify(v) = text

\* JSON.parse(text), where it returns.
Parse(text) == CHOOSE v \in JsonValues : Stringify(v) = text

----------------------------------------------------------------------------
(* The page: what resultsArea shows                                        *)

\* A paragraph, with the class error-message or without.
Message(isError, text) == [kind |-> "message", isError |-> isError, text |-> text]

InitialMessage ==
  Message(FALSE, "Enter URLs above and click \"Scrape Websites\" to see results. Previously scraped data will be saved here.")

NoResultsMessage == Message(FALSE, "No results found or provided.")

CorruptMessage ==
  Message(TRUE, "Could not load previously saved results. They might be corrupted.")

ValidationMessage ==
  Message(TRUE, "Please enter at least one valid URL (starting with http:// or https://).")

ScrapeErrorMessage(message) ==
  Message(TRUE, "An error occurred during scraping: " \o message)

\* The result items displayResults has appended.
Items(items) == [kind |-> "results", items |-> items]

DisplayLimit == 10

RECURSIVE Safe(_)
\* .replace(/</g, "&lt;").replace(/>/g, "&gt;")
Safe(s) ==
  IF s = "" THEN ""
  ELSE LET c == SubSeq(s, 1, 1)
       IN  (IF c = "<" THEN "&lt;" ELSE IF c = ">" THEN "&gt;" ELSE c)
             \o Safe(SubSeq(s, 2, Len(s)))

\* result?.key || fallback
FieldOr(result, key, fallback) ==
  IF IsOutcome(result) /\ key \in DOMAIN result /\ result[key] # ""
  THEN result[key] ELSE fallback

\* The div displayResults builds for one member of results.
Item(result) ==
  LET url == FieldOr(result, "url", "Unknown URL")
      status == FieldOr(result, "status", "unknown")
      records == IF IsOutcome(result) /\ "records" \in DOMAIN result
                 THEN result.records ELSE <<>>
      errorMsg == FieldOr(result, "error", "Unknown error")
      shown == SubSeq(records, 1,
                      IF Len(records) < DisplayLimit THEN Len(records)
                      ELSE DisplayLimit)
  IN  IF status = "success"
      THEN [url |-> url, status |-> status, count |-> Len(records),
            shown |-> [j \in 1..Len(shown) |->
                         [k \in DOMAIN shown[j] |-> Safe(shown[j][k])]],
            more |-> IF Len(records) > DisplayLimit
                     THEN Len(records) - DisplayLimit ELSE 0]
      ELSE [url |-> url, status |-> status, error |-> Safe(errorMsg)]

NotAFunction == Error("TypeError", "results.forEach is not a function")

\* displayResults(results): what resultsArea shows when it returns or throws,
\* and the error thrown.
Display(results) ==
  IF Falsy(results) \/ (results.t = "array" /\ Len(results.v) = 0)
  THEN [view |-> NoResultsMessage, error |-> NoError]
  ELSE IF results.t # "array"
  THEN [view |-> Blank, error |-> NotAFunction]
  ELSE [view |-> Items([j \in 1..Len(results.v) |-> Item(results.v[j])]),
        error |-> NoError]

\* loadAndDisplayStoredResults(): what resultsArea shows and what is stored
\* when it returns.
LoadStored(stored) ==
  IF ~stored.has \/ stored.v = ""
  THEN [view |-> InitialMessage, storage |-> stored]
  ELSE IF ~Parses(stored.v) \/ Display(Parse(stored.v)).error.has
  THEN [view |-> CorruptMessage, storage |-> NoAttr]
  ELSE [view |-> Display(Parse(stored.v)).view, storage |-> stored]

----------------------------------------------------------------------------
(* The page: its tasks                                                     *)

MaxCalls == 2

\* The document as the browser hands it to the DOMContentLoaded listener:
\* the loading indicator carries the class hidden, the button is enabled
\* and the textarea is empty.
FreshDocument ==
  [textarea |-> "", loadingHidden |-> TRUE, buttonDisabled |-> FALSE]

\* What localStorage may hold under storageKey when a page is first opened.
StoredAtStart ==
  {NoAttr, Attr("")} \cup {Attr(Stringify(v)) : v \in JsonValues}
    \cup {Attr(g) : g \in Garbage}

ClientInit == ServerInit /\ NoPage /\ storage \in StoredAtStart

\* The responses fetch('/scrape') may resolve with.
ClientResponses ==
  {Response(200, "OK"), Response(400, "Bad Request"),
   Response(500, "Internal Server Error")}

\* A JSON object with the key error.
ErrorBody(message) == [t |-> "object", error |-> message]

\* What the body of a response that is not OK may be: no JSON, null, an
\* object without the key error, and the object the handler sends with 400.
ErrorBodies == {NoAttr, Attr(Null), Attr(Obj), Attr(ErrorBody(BadRequestMessage))}

\* The click handler suspended at await fetch(...).
Call(u) == [pc |-> "fetch", urls |-> u, response |-> NoResponse]

RemoveAt(s, k) == SubSeq(s, 1, k - 1) \o SubSeq(s, k + 1, Len(s))

\* The error thrown for a response that is not OK.
ServerError(response, body) ==
  LET errorData == IF body.has THEN body.v ELSE ErrorBody("Unknown server error")
  IN  IF errorData.t = "null"
      THEN Error("TypeError", "Cannot read properties of null (reading 'error')")
      ELSE Error("Error",
                 "Server error: " \o ToString(response.status) \o " "
                   \o response.statusText \o " - "
                   \o (IF "error" \in DOMAIN errorData THEN errorData.error ELSE ""))

\* A catch clause that drops the stored results.
AfterCatchCleared(stored) == NoAttr

\* What is stored when the catch clause of the click handler has run.
AfterCatch(stored) == stored

\* A handler that ends without its finally clause.
FinishNoFinally(k, view) ==
  /\ resultsArea' = view
  /\ calls' = RemoveAt(calls, k)
  /\ UNCHANGED <<loadingHidden, buttonDisabled>>

\* Handler k leaves its try statement with resultsArea showing view.
Finish(k, view) ==
  /\ resultsArea' = view
  /\ loadingHidden' = TRUE
  /\ buttonDisabled' = FALSE
  /\ calls' = RemoveAt(calls, k)

\* Handler k catches error.
Catch(k, error, event) ==
  /\ Finish(k, ScrapeErrorMessage(error.message))
  /\ storage' = AfterCatch(storage)
  /\ lastEvent' = event
  /\ UNCHANGED <<page, textarea, lastOk, lastSaved, serverVars>>

\* The page is opened or reloaded: the handlers of the old document are
\* gone, and the listener shows what is stored.
Load ==
  /\ page' = "loaded"
  /\ textarea' = FreshDocument.textarea
  /\ loadingHidden' = FreshDocument.loadingHidden
  /\ buttonDisabled' = FreshDocument.buttonDisabled
  /\ calls' = <<>>
  /\ resultsArea' = LoadStored(storage).view
  /\ storage' = LoadStored(storage).storage
  /\ lastEvent' = "load"
  /\ UNCHANGED <<lastOk, lastSaved, serverVars>>

\* The user edits the textarea.
Type(text) ==
  /\ page = "loaded"
  /\ textarea # text
  /\ textarea' = text
  /\ lastEvent' = "type"
  /\ UNCHANGED <<page, resultsArea, loadingHidden, buttonDisabled, storage,
                 calls, lastOk, lastSaved, serverVars>>

\* The user clicks the button; a disabled button dispatches no click.
Click ==
  /\ page = "loaded"
  /\ ~buttonDisabled
  /\ Len(calls) < MaxCalls
  /\ IF ClientUrls(textarea) = <<>>
     THEN /\ resultsArea' = ValidationMessage
          /\ lastEvent' = "rejected"
          /\ UNCHANGED <<loadingHidden, buttonDisabled, calls>>
     ELSE /\ loadingHidden' = FALSE
          /\ resultsArea' = Blank
          /\ buttonDisabled' = TRUE
          /\ calls' = Append(calls, Call(ClientUrls(textarea)))
          /\ lastEvent' = "sent"
  /\ UNCHANGED <<page, textarea, storage, lastOk, lastSaved, serverVars>>

\* fetch resolves for handler k.
FetchResolved(k, response) ==
  /\ k \in 1..Len(calls) /\ calls[k].pc = "fetch"
  /\ calls' = [calls EXCEPT ![k].response = response,
                            ![k].pc = IF Ok(response) THEN "json" ELSE "errjson"]
  /\ lastEvent' = "headers"
  /\ UNCHANGED <<page, textarea, resultsArea, loadingHidden, buttonDisabled,
                 storage, lastOk, lastSaved, serverVars>>

\* fetch rejects for handler k: the server cannot be reached.
FetchRejected(k) ==
  /\ k \in 1..Len(calls) /\ calls[k].pc = "fetch"
  /\ Catch(k, Error("TypeError", "Failed to fetch"), "network")

\* The body of an OK response is JSON for results; setItem stores it or,
\* with saveOk false, throws.
Json(k, results, saveOk) ==
  /\ k \in 1..Len(calls) /\ calls[k].pc = "json"
  /\ LET saved == IF saveOk THEN Attr(Stringify(results)) ELSE storage
         shown == Display(results)
     IN  /\ Finish(k, IF shown.error.has
                      THEN ScrapeErrorMessage(shown.error.message)
                      ELSE shown.view)
         /\ storage' = IF shown.error.has THEN AfterCatch(saved) ELSE saved
  /\ lastOk' = Attr(results)
  /\ lastSaved' = IF saveOk THEN Attr(results) ELSE lastSaved
  /\ lastEvent' = IF saveOk THEN "saved" ELSE "unsaved"
  /\ UNCHANGED <<page, textarea, serverVars>>

\* The body of an OK response is no JSON.
JsonFailed(k) ==
  /\ k \in 1..Len(calls) /\ calls[k].pc = "json"
  /\ Catch(k, Error("SyntaxError", "Unexpected end of JSON input"), "badbody")

\* The body of a response that is not OK has been read.
ErrJson(k, body) ==
  /\ k \in 1..Len(calls) /\ calls[k].pc = "errjson"
  /\ Catch(k, ServerError(calls[k].response, body), "servererror")

ClientNext ==
  \/ Load
  \/ \E text \in Texts : Type(text)
  \/ Click
  \/ \E k \in 1..MaxCalls, response \in ClientResponses : FetchResolved(k, response)
  \/ \E k \in 1..MaxCalls : FetchRejected(k)
  \/ \E k \in 1..MaxCalls, results \in JsonValues, saveOk \in BOOLEAN :
       Json(k, results, saveOk)
  \/ \E k \in 1..MaxCalls : JsonFailed(k)
  \/ \E k \in 1..MaxCalls, body \in ErrorBodies : ErrJson(k, body)

\* The page against any server.
ClientSpec == ClientInit /\ [][ClientNext]_vars

----------------------------------------------------------------------------
(* Properties *)

N == IF urls.t = "array" THEN Len(urls.v) ELSE 0

Answered == res.sent /\ res.status = 200

FailedWith(i, message) ==
  scrapes[i].promise =
    Fulfilled([url |-> urls.v[i], status |-> "failed", error |-> message])

Succeeded(i) ==
  /\ scrapes[i].promise.state = "fulfilled"
  /\ scrapes[i].promise.value.status = "success"

\* C1: the response of an accepted batch has one element per input URL, and
\* element i carries input URL i, whatever the order of completion.
C1_OrderPreserved ==
  Answered =>
    /\ Len(res.json) = Len(urls.v)
    /\ \A i \in 1..Len(urls.v) : res.json[i].url = urls.v[i]

\* Two different URLs; the second settled first (by its timeout), the first
\* later with a success.
C1_Witness ==
  /\ Answered /\ N = 2 /\ urls.v[1] # urls.v[2]
  /\ settleOrder = <<2, 1>>
  /\ res.json[1].status = "success"
  /\ res.json[2].status = "failed" /\ res.json[2].error = TimedOutMessage

\* C2: every accepted batch eventually sends its response, even when a
\* remote server never completes its response (before the headers or while
\* the body is read).
C2_BatchEventuallyResponds == (handler = "awaiting") ~> (handler = "sent")

\* C3: a timer that fires while its fetch is pending aborts the request and
\* makes the outcome the failure "Request timed out" for that url; only that
\* path produces this message.
C3_TimeoutOutcome ==
  /\ [][\A i \in Slots :
          (Started(i) /\ scrapes[i].pc = "fetch" /\ scrapes[i].timer = "pending"
             /\ scrapes'[i].timer = "fired")
          => (scrapes'[i].aborted
              /\ scrapes'[i].promise =
                   Fulfilled([url |-> urls.v[i], status |-> "failed",
                              error |-> "Request timed out"]))]_vars
  /\ [](\A i \in 1..N :
          (scrapes[i].promise.state = "fulfilled"
             /\ scrapes[i].promise.value.status = "failed"
             /\ scrapes[i].promise.value.error = "Request timed out")
          => (scrapes[i].timer = "fired" /\ scrapes[i].aborted
              /\ ~scrapes[i].response.has /\ scrapes[i].requests = 1))

\* One invocation timed out; its sibling failed by an HTTP error, with
\* another message.
C3_Witness ==
  /\ N = 2
  /\ scrapes[1].timer = "fired" /\ FailedWith(1, "Request timed out")
  /\ scrapes[2].response.has /\ scrapes[2].response.status = 404
  /\ scrapes[2].promise.state = "fulfilled"
  /\ scrapes[2].promise.value.error # "Request timed out"

\* C4: an invocation never rejects and never returns twice; it has returned
\* exactly when its promise is fulfilled, and whenever an exception was
\* raised in it the outcome is a Failure carrying the requested url.
C4_OneOutcomeNeverRejects ==
  \A i \in 1..N :
    /\ scrapes[i].promise.state # "rejected"
    /\ scrapes[i].returns <= 1
    /\ (scrapes[i].pc = "returned")
         <=> (scrapes[i].promise.state = "fulfilled" /\ scrapes[i].returns = 1)
    /\ scrapes[i].error.has =>
         /\ scrapes[i].promise.state = "fulfilled"
         /\ scrapes[i].promise.value.status = "failed"
         /\ scrapes[i].promise.value.url = urls.v[i]

\* An exception during extraction in one invocation, a failure while reading
\* the body in the other.
C4_Witness ==
  /\ N = 2
  /\ scrapes[1].policy = "site" /\ scrapes[1].error.has
  /\ FailedWith(1, "Invalid URL")
  /\ scrapes[2].reads = 1 /\ ~scrapes[2].html.has
  /\ FailedWith(2, "terminated")

\* C5: a task of one invocation changes no other invocation, and an accepted
\* batch that answers does so successfully, with one element per URL.
C5_Isolation ==
  /\ [][\A i, j \in Slots :
          (handler # "listening" /\ i # j /\ scrapes'[i] # scrapes[i])
          => scrapes'[j] = scrapes[j]]_vars
  /\ []((res.sent /\ N > 0) => (res.status = 200 /\ Len(res.json) = N))

\* One invocation timed out while its sibling was still fetching; the
\* sibling then got a network error, and the batch answered.
C5_Witness ==
  /\ Answered /\ N = 2 /\ settleOrder = <<1, 2>>
  /\ FailedWith(1, "Request timed out")
  /\ FailedWith(2, "fetch failed")
  /\ ~scrapes[2].aborted

\* C6: the response of an accepted batch is sent only when every invocation
\* of the batch has returned.
C6_AnswerAfterAll ==
  (handler = "sent" /\ N > 0) =>
    \A i \in 1..N :
      scrapes[i].pc = "returned" /\ scrapes[i].promise.state # "pending"

\* A batch whose first invocation failed early (HTTP error) and whose second
\* succeeded afterwards.
C6_Witness ==
  /\ Answered /\ N = 2 /\ settleOrder = <<1, 2>>
  /\ scrapes[1].response.has /\ scrapes[1].response.status = 300
  /\ Succeeded(2) /\ scrapes[2].promise.value.records # <<>>

\* C7: a URL list that is absent, not an array or empty is answered with the
\* client error and its message, and nothing is started or fetched.
C7_InvalidRejected ==
  (handler # "listening" /\ (urls.t # "array" \/ N = 0)) =>
    /\ res = Sent(400, [error |-> "Please provide an array of URLs in the request body."])
    /\ \A i \in Slots : scrapes[i] = NotStarted
    /\ settleOrder = <<>>

\* The empty array was posted and rejected.
C7_Witness ==
  /\ urls = Arr(<<>>) /\ res.sent /\ res.status = 400
  /\ \A i \in Slots : scrapes[i].requests = 0

\* C8: a response with a status outside 200-299 gives the Failure
\* "Failed to fetch <url>: <status> <statusText>"; the body is not read, no
\* policy runs and the URL is requested once only.
C8_HttpError ==
  \A i \in 1..N :
    (scrapes[i].response.has
       /\ (scrapes[i].response.status < 200 \/ scrapes[i].response.status > 299))
    => /\ FailedWith(i, "Failed to fetch " \o urls.v[i] \o ": "
                          \o ToString(scrapes[i].response.status) \o " "
                          \o scrapes[i].response.statusText)
       /\ scrapes[i].reads = 0 /\ ~scrapes[i].html.has
       /\ scrapes[i].policy = "none"
       /\ scrapes[i].requests = 1

\* A 404 for the plain URL.
C8_Witness ==
  \E i \in 1..N :
    /\ urls.v[i] = PlainUrl
    /\ scrapes[i].response = Response(404, "Not Found")
    /\ FailedWith(i, "Failed to fetch http://example.com/: 404 Not Found")

\* C9: every element of a batch response has status "success" with records
\* and no error, or status "failed" with error and no records.
C9_Envelope ==
  Answered =>
    \A k \in 1..Len(res.json) :
      \/ /\ res.json[k].status = "success"
         /\ DOMAIN res.json[k] = {"url", "status", "records"}
      \/ /\ res.json[k].status = "failed"
         /\ DOMAIN res.json[k] = {"url", "status", "error"}

\* A response holding one element of each kind.
C9_Witness ==
  /\ Answered /\ N = 2
  /\ res.json[1].status = "failed" /\ "error" \in DOMAIN res.json[1]
  /\ res.json[2].status = "success" /\ "records" \in DOMAIN res.json[2]
  /\ scrapes[1].requests = 0

\* A product container that has a title, a price and a link.
HasAllFields(pod) ==
  /\ pod.title.has /\ Trim(pod.title.v) # ""
  /\ Trim(pod.price) # ""
  /\ pod.href.has /\ pod.href.v # ""

\* C10: for a catalog-site URL whose page was read (and whose links all
\* parse), the outcome is a Success with one Record per product container
\* that has title, price and link; every Record has a non-empty title, a
\* non-empty price and an absolute link.
C10_SiteRecords ==
  \A i \in 1..N :
    (Includes(urls.v[i], "books.toscrape.com") /\ scrapes[i].html.has
       /\ \A k \in 1..Len(scrapes[i].html.v.pods) :
            ~PodThrows(scrapes[i].html.v.pods[k], urls.v[i]))
    => /\ Succeeded(i)
       /\ Len(scrapes[i].promise.value.records) =
            Cardinality({k \in 1..Len(scrapes[i].html.v.pods) :
                           HasAllFields(scrapes[i].html.v.pods[k])})
       /\ \A k \in 1..Len(scrapes[i].promise.value.records) :
            /\ scrapes[i].promise.value.records[k].title # ""
            /\ scrapes[i].promise.value.records[k].price # ""
            /\ IsAbsolute(scrapes[i].promise.value.records[k].link)

\* C11: a policy runs exactly when the body was read, the site policy for a
\* URL holding the known host and the fallback otherwise; the fallback gives
\* a Success with the one Record {title: trimmed first h1, source: "Generic
\* H1 scrape"} when that text is non-empty and with no Record otherwise.
C11_PolicyAndFallback ==
  \A i \in 1..N :
    /\ (scrapes[i].policy # "none") <=> scrapes[i].html.has
    /\ scrapes[i].html.has =>
         LET site == Includes(urls.v[i], "books.toscrape.com")
             h1s  == scrapes[i].html.v.h1s
             first == IF Len(h1s) = 0 THEN "" ELSE Trim(h1s[1])
         IN  /\ scrapes[i].policy = (IF site THEN "site" ELSE "generic")
             /\ (site /\ Succeeded(i)) =>
                  \A k \in 1..Len(scrapes[i].promise.value.records) :
                    "source" \notin DOMAIN scrapes[i].promise.value.records[k]
             /\ ~site =>
                  scrapes[i].promise =
                    Fulfilled([url |-> urls.v[i], status |-> "success",
                               records |->
                                 IF first = "" THEN <<>>
                                 ELSE <<[title |-> first,
                                         source |-> "Generic H1 scrape"]>>])

\* The plain URL answered with a page whose first h1 is " Example Domain ",
\* and again with a page whose first h1 is blank and whose second is not.
C11_Witness ==
  /\ N = 2 /\ urls.v[1] = PlainUrl /\ urls.v[2] = PlainUrl
  /\ scrapes[1].html = Attr(DocHeading)
  /\ scrapes[1].promise.state = "fulfilled"
  /\ scrapes[1].promise.value.records =
       <<[title |-> "Example Domain", source |-> "Generic H1 scrape"]>>
  /\ scrapes[2].html = Attr(DocBlankHeading)
  /\ scrapes[2].promise.state = "fulfilled"
  /\ scrapes[2].promise.value.records = <<>>

\* C12: when a promise of the batch is rejected, the batch still answers
\* 200 with one element per URL; the rejected position holds the placeholder
\* Failure with the reason's message, or the generic text when it has none,
\* and every other position holds its own invocation's outcome.
C12_RejectedSlot ==
  (handler = "sent" /\ N > 0) =>
    /\ res.status = 200
    /\ Len(res.json) = N
    /\ \A i \in 1..N :
         IF scrapes[i].promise.state = "rejected"
         THEN res.json[i] =
                [url |-> "Unknown URL (unexpected error)", status |-> "failed",
                 error |-> IF scrapes[i].promise.reason.has
                              /\ scrapes[i].promise.reason.message # ""
                           THEN scrapes[i].promise.reason.message
                           ELSE "An unexpected error occurred during scraping."]
         ELSE /\ scrapes[i].promise.state = "fulfilled"
              /\ res.json[i] = scrapes[i].promise.value
              /\ res.json[i].url = urls.v[i]

\* The first promise rejected with a message, after the second invocation
\* had succeeded with records.
C12_Witness ==
  /\ Answered /\ N = 2 /\ settleOrder = <<2, 1>>
  /\ scrapes[1].promise = Rejected(Error("Error", "boom"))
  /\ res.json[1].error = "boom"
  /\ Succeeded(2) /\ scrapes[2].promise.value.records # <<>>

C16_FanOut ==
  /\ \A i \in Slots : scrapes[i].fetches <= 1 /\ scrapes[i].requests <= 1
  /\ \A i \in Slots : (i > N \/ handler = "listening") => scrapes[i].fetches = 0
  /\ (handler # "listening" /\ N > 0) =>
       \A i \in 1..N : scrapes[i].fetches = 1

\* The same URL twice: the first fetch has failed, the second is still
\* pending, and each position has had its one call.
C16_Witness ==
  /\ N = 2 /\ urls.v[1] = PlainUrl /\ urls.v[2] = PlainUrl
  /\ FailedWith(1, "fetch failed") /\ scrapes[1].fetches = 1
  /\ scrapes[2].pc = "fetch" /\ scrapes[2].fetches = 1
  /\ handler = "awaiting"

\* C17: once an invocation has produced its outcome, its timeout timer is
\* not pending any more.
C17_TimerScoped ==
  \A i \in 1..N : scrapes[i].pc = "returned" => scrapes[i].timer # "pending"

\* The urls the last click has submitted.
Submitted == calls[Len(calls)].urls

\* The positions of the lines of the textarea that, trimmed, start with
\* http:// or https://.
QualifyingLines ==
  LET lines == Split(textarea)
  IN  {k \in 1..Len(lines) :
         StartsWith(Trim(lines[k]), "http://") \/ StartsWith(Trim(lines[k]), "https://")}

\* C13: a click submits exactly the lines of the textarea that, trimmed,
\* start with http:// or https://, trimmed and in their order; when no line
\* does, the validation message is shown, no request is in flight, the button
\* stays enabled and the loading indicator hidden.
C13_ClientIntake ==
  /\ lastEvent = "sent" =>
       /\ QualifyingLines # {}
       /\ Len(Submitted) = Cardinality(QualifyingLines)
       /\ \A j \in 1..Len(Submitted) :
            LET k == CHOOSE q \in QualifyingLines :
                       Cardinality({m \in QualifyingLines : m < q}) = j - 1
            IN  Submitted[j] = Trim(Split(textarea)[k])
  /\ lastEvent = "rejected" =>
       /\ QualifyingLines = {}
       /\ resultsArea = ValidationMessage
       /\ calls = <<>>
       /\ ~buttonDisabled
       /\ loadingHidden

C13_Witness ==
  /\ lastEvent = "sent"
  /\ Len(Split(textarea)) = 3
  /\ Submitted = <<"https://b.test/y", "http://a.test/x">>

\* Nothing usable is stored: no entry, or the empty string.
Absent(stored) == ~stored.has \/ stored.v = ""

IsOutcomeList(v) == v.t = "array" /\ \A j \in 1..Len(v.v) : IsOutcome(v.v[j])

\* The entry is missing, is no JSON, or is JSON for something other than a
\* list of outcomes.
Malformed(stored) ==
  \/ Absent(stored)
  \/ ~Parses(stored.v)
  \/ ~IsOutcomeList(Parse(stored.v))

\* C14: a page load returns, and when the cached entry is missing or
\* malformed (no JSON, or JSON that is no list of outcomes) it leaves nothing
\* cached and shows a message instead of results.
C14_MalformedCacheCleared ==
  [][lastEvent' = "load" =>
       /\ page' = "loaded"
       /\ Malformed(storage) =>
            Absent(storage') /\ resultsArea'.kind = "message"]_vars

\* C18: the button is disabled and the loading indicator shown exactly while
\* a click handler of the page is awaiting its request; there is at most one
\* such handler, and when it has ended, whichever way, the button is enabled
\* and the indicator hidden.
C18_ButtonWhileInFlight ==
  /\ Len(calls) <= 1
  /\ buttonDisabled <=> calls # <<>>
  /\ ~loadingHidden <=> calls # <<>>
  /\ lastEvent \in {"saved", "unsaved", "network", "badbody", "servererror"} =>
       calls = <<>> /\ ~buttonDisabled /\ loadingHidden

C18_Witness ==
  /\ lastEvent = "unsaved"
  /\ calls = <<>>
  /\ ~buttonDisabled
  /\ loadingHidden

\* The click handler has ended on a response it could read as JSON.
Succeeded200(event) == event \in {"saved", "unsaved"}

\* C19 as stated: storage changes only on a successful response and then
\* holds that response; a rejected click, a response that is not OK and a
\* network error leave it alone; a later load shows the last successful
\* batch again.
C19_StorageOnlyOnSuccess ==
  [][/\ storage' # storage => Succeeded200(lastEvent')
     /\ Succeeded200(lastEvent') => storage' = Attr(Stringify(lastOk'.v))
     /\ lastEvent' \in {"rejected", "servererror", "network"} => storage' = storage
     /\ (lastEvent' = "load" /\ lastOk.has /\ ~Display(lastOk.v).error.has) =>
          resultsArea' = Display(lastOk.v).view]_vars

\* The entry cannot be shown: it is no JSON, or displayResults throws on it.
Unusable(text) == ~Parses(text) \/ Display(Parse(text)).error.has

\* C19, amended: storage changes only when a successful response is saved
\* (it then holds that response) or when a page load removes an entry it
\* cannot show; a rejected click, a response that is not OK, a network
\* error, an unreadable body and a failed save leave it alone; a later load
\* shows the last saved batch again.
C19_StorageOnlyOnSave ==
  [][/\ storage' # storage =>
          \/ lastEvent' = "saved"
          \/ /\ lastEvent' = "load"
             /\ storage.has /\ Unusable(storage.v)
             /\ storage' = NoAttr
     /\ lastEvent' = "saved" =>
          storage' = Attr(Stringify(lastOk'.v)) /\ lastSaved' = lastOk'
     /\ lastEvent' \in {"rejected", "servererror", "network", "badbody", "unsaved"} =>
          storage' = storage
     /\ (lastEvent' = "load" /\ lastSaved.has /\ ~Display(lastSaved.v).error.has) =>
          resultsArea' = Display(lastSaved.v).view /\ storage' = storage]_vars

C19_Witness ==
  /\ lastEvent = "load"
  /\ lastSaved.has /\ lastOk # lastSaved
  /\ resultsArea.kind = "results"
  /\ resultsArea = Display(lastSaved.v).view
  /\ storage = Attr(Stringify(lastSaved.v))

============================================================================
